---- MODULE Spec2Model ----
(***************************************************************************)
(* Synchrome: a Page (one websocket connection to one debuggable target,   *)
(* request/response correlation and event dispatch) and the Browser that   *)
(* supervises the chrome process and caches the Pages.                     *)
(*                                                                         *)
(* One step of the model is one macrotask of the node event loop together  *)
(* with all the promise continuations (microtasks) it triggers.            *)
(***************************************************************************)
EXTENDS Integers, Sequences, FiniteSets, TLC

\* ------------------------------------------------------------------ bounds
\* user calls of send/exec on one Page (the constructor's two are extra)
MaxCalls == 1
\* user calls of listen/wait on one Page (the constructor's listener is extra)
MaxListeners == 2
\* frames a peer puts on the socket of one Page
MaxFrames == 2
\* what happens to one Browser from outside: exits of its chrome process, and
\* calls of open / close / get by the user
MaxInputs == 2
\* user calls of navigate on one Page
MaxNavs == 2

\* ------------------------------------------------------------------ values
\* JavaScript values are modelled as strings; accessors below read their fields.
Undefined == "undefined"

\* `result` payloads of a response frame
R_Empty == "{}"
R_Falsy == "{result:{value:0}}"
R_Truthy == "{result:{value:1}}"
R_Exc == "{exceptionDetails:X,result:{}}"
Results == {R_Empty, R_Falsy, R_Truthy, R_Exc}

\* `error` payloads of a response frame: JSON null, or an object
E_Null == "null"
E_Obj == "{code:-1,message:bad}"
Errors == {E_Null, E_Obj}

TypeError == "TypeError"

\* event names: a page event, the console event the constructor listens to, and
\* the name node's EventEmitter treats specially
LoadEvent == "Page.loadEventFired"
ConsoleEvent == "Console.messageAdded"
ErrorEvent == "error"
Methods == {LoadEvent, ConsoleEvent, ErrorEvent}

\* `params` of an event frame: absent, or a console message {message:{text,source}}
P_Msg == "{message:{text,source}}"
Params == {Undefined, P_Msg}

VARIABLES
    pages,        \* the Page objects, by instance number
    calls,        \* every send() made: its promise and the promise chained on it
    waits,        \* every wait() made: its promise
    poll,         \* the waitFor() call: its closure variables and its promise
    navs,         \* every navigate() made: where it stands, and its promise
    lastFrame,    \* the frame the last _onMessage was called with
    branch,       \* the branch the last _onMessage took
    thrown,       \* whether the last _onMessage threw
    invoked,      \* the listeners the last _onMessage invoked
    handled,      \* how many frames _onMessage was called with
    process,      \* the chrome process: how many were spawned, whether the last one
                  \* answers, how many exited, and how many 'browser-exit' were emitted
    targets,      \* the descriptors the process lists at /json, in order
    initialized,  \* Browser._initialized
    defaultPage,  \* Browser._defaultPage (0: null)
    sockets,      \* Browser._sockets: target id -> Page
    runs,         \* the _initialize() calls made
    ops,          \* the open() and close() calls made
    getLog        \* what every get() was given and returned

pageVars == <<pages, calls, waits, poll, navs, lastFrame, branch, thrown, invoked, handled>>
browserVars == <<process, targets, initialized, defaultPage, sockets, runs, ops, getLog>>
vars == <<pageVars, browserVars>>

\* ------------------------------------------------------------------ helpers
\* a JavaScript Map: set and delete
EmptyMap == [k \in {} |-> 0]
MapSet(m, k, v) == [x \in (DOMAIN m) \cup {k} |-> IF x = k THEN v ELSE m[x]]
MapDelete(m, k) == [x \in (DOMAIN m) \ {k} |-> m[x]]

\* result.exceptionDetails, and result.result.value (TypeError when result.result is missing)
ExceptionDetails(r) == IF r = R_Exc THEN "X" ELSE Undefined
HasInner(r) == r \in {R_Falsy, R_Truthy, R_Exc}
InnerValue(r) == IF r = R_Truthy THEN "1" ELSE IF r = R_Falsy THEN "0" ELSE Undefined
Truthy(v) == v \notin {Undefined, "0", E_Null}

\* exec() passing the result on without looking at exceptionDetails
ExecThenUnchecked(st, v) ==
    IF st = "rejected" THEN [state |-> "rejected", value |-> v]
    ELSE IF v = Undefined THEN [state |-> "rejected", value |-> TypeError]
    ELSE [state |-> "resolved", value |-> v]

\* the promise exec() chains on send(): .then(result => exceptionDetails ? reject : resolve)
ExecThen(st, v) ==
    IF st = "rejected" THEN [state |-> "rejected", value |-> v]
    ELSE IF v = Undefined THEN [state |-> "rejected", value |-> TypeError]
    ELSE IF Truthy(ExceptionDetails(v)) THEN [state |-> "rejected", value |-> ExceptionDetails(v)]
    ELSE [state |-> "resolved", value |-> v]

\* the promise execSync() chains on exec(): .then(data => data.result.value)
ExecSyncThen(st, v) ==
    LET e == ExecThen(st, v) IN
    IF e.state = "rejected" THEN e
    ELSE IF ~HasInner(e.value) THEN [state |-> "rejected", value |-> TypeError]
    ELSE [state |-> "resolved", value |-> InnerValue(e.value)]

\* the promise the caller of send / exec / execSync holds, from the outcome of send
ApiThen(then, st, v) ==
    CASE then = "exec" -> ExecThen(st, v)
      [] then = "execSync" -> ExecSyncThen(st, v)
      [] OTHER -> [state |-> st, value |-> v]

\* ------------------------------------------------------------------ Page
\* new Page(pageObject, browser) before its two send() calls: fields and
\* _connect(). `page` is this._page, which navigate() reads: nothing in the class
\* assigns it (0: undefined)
PageFields(id, conn) ==
    [id |-> id, conn |-> conn, socket |-> "connecting",
     packetCounter |-> 0, packetCallbacks |-> EmptyMap,
     opening |-> <<>>, wire |-> <<>>,
     listeners |-> <<>>, added |-> 0, page |-> 0]

\* a send() whose promise is pending and which has not passed _waitForConnection
NewCall(p, method, then) ==
    [page |-> p, method |-> method, then |-> then, id |-> 0,
     state |-> "waiting", value |-> Undefined,
     apiState |-> "pending", apiValue |-> Undefined]

\* send() registering the callback before it increments the counter
SendBodyStaleKey(w, p, c) ==
    LET n == w.pages[p].packetCounter + 1 IN
    [w EXCEPT !.pages[p].packetCounter = n,
              !.pages[p].packetCallbacks = MapSet(@, n - 1, c),
              !.pages[p].wire = Append(@, [id |-> n, method |-> w.calls[c].method, call |-> c]),
              !.calls[c].id = n,
              !.calls[c].state = "pending"]

\* send() using the counter before it increments it
SendBodyPostIncrement(w, p, c) ==
    LET n == w.pages[p].packetCounter IN
    [w EXCEPT !.pages[p].packetCounter = n + 1,
              !.pages[p].packetCallbacks = MapSet(@, n, c),
              !.pages[p].wire = Append(@, [id |-> n, method |-> w.calls[c].method, call |-> c]),
              !.calls[c].id = n,
              !.calls[c].state = "pending"]

\* send(), after `await this._waitForConnection()`: allocate the id, register, write
SendBody(w, p, c) ==
    LET n == w.pages[p].packetCounter + 1 IN
    [w EXCEPT !.pages[p].packetCounter = n,
              !.pages[p].packetCallbacks = MapSet(@, n, c),
              !.pages[p].wire = Append(@, [id |-> n, method |-> w.calls[c].method, call |-> c]),
              !.calls[c].id = n,
              !.calls[c].state = "pending"]

\* _waitForConnection() resolving at once on every socket that has been open
WaitForConnectionOnce(w, p) == w.pages[p].socket # "connecting"

\* _waitForConnection(): resolved at once iff readyState === 1
WaitForConnection(w, p) == w.pages[p].socket = "open"

\* send(method): a new promise; its executor runs on when the socket is open
Send(w, p, method, then) ==
    LET c == Len(w.calls) + 1
        w1 == [w EXCEPT !.calls = Append(@, NewCall(p, method, then))]
    IN  IF WaitForConnection(w, p) THEN SendBody(w1, p, c)
        ELSE [w1 EXCEPT !.pages[p].opening = Append(@, c)]

\* listen(method, listener): addListener
Listen(w, p, method, kind, throws) ==
    [w EXCEPT !.pages[p].added = @ + 1,
              !.pages[p].listeners =
        Append(@, [lid |-> w.pages[p].added + 1, method |-> method, kind |-> kind,
                   throws |-> throws, wait |-> 0])]

\* wait(method): a new promise resolved by a once() listener
Wait(w, p, method) ==
    [w EXCEPT !.waits = Append(@, [page |-> p, method |-> method,
                                   state |-> "pending", value |-> Undefined]),
              !.pages[p].added = @ + 1,
              !.pages[p].listeners =
        Append(@, [lid |-> w.pages[p].added + 1, method |-> method, kind |-> "once",
                   throws |-> FALSE, wait |-> Len(w.waits) + 1])]

\* the constructor: fields, _connect, send Console.enable, send Page.enable, listen
PageCtor(w, id, conn) ==
    LET p == Len(w.pages) + 1
        w0 == [w EXCEPT !.pages = Append(@, PageFields(id, conn))]
        w1 == Send(w0, p, "Console.enable", "none")
        w2 == Send(w1, p, "Page.enable", "none")
    IN  Listen(w2, p, ConsoleEvent, "console", FALSE)

\* ------------------------------------------------------------------ _onMessage
NoError == "absent"
NoMethod == "none"

\* an inbound text frame: text that is not JSON, JSON that is not an object
\* (null, a number, a string), or an object with some of id, error, result,
\* method, params
NoFrame ==
    [json |-> "none", hasId |-> FALSE, id |-> 0, error |-> NoError,
     result |-> Undefined, method |-> NoMethod, params |-> Undefined]
ObjectFrame(hasId, id, error, result, method, params) ==
    [json |-> "object", hasId |-> hasId, id |-> id, error |-> error,
     result |-> result, method |-> method, params |-> params]

\* callback.resolve / callback.reject: a promise settles once; the promises
\* chained on it settle in the same turn
Settle(w, c, st, v) ==
    IF w.calls[c].state # "pending" THEN w
    ELSE LET a == ApiThen(w.calls[c].then, st, v) IN
         [w EXCEPT !.calls[c].state = st, !.calls[c].value = v,
                   !.calls[c].apiState = a.state, !.calls[c].apiValue = a.value]

\* whether a listener throws when called with params: the constructor's console
\* listener destructures {message} and reads message.text; a user listener may
\* throw; the once() wrapper of wait() only resolves
ListenerThrows(l, params) ==
    CASE l.kind = "console" -> params # P_Msg
      [] l.kind = "durable" -> l.throws
      [] OTHER -> FALSE

\* emit() calling every listener, whatever name it was registered for
EmitToAll(w, p, method, params) ==
    LET ls == w.pages[p].listeners
        idx == DOMAIN ls
        bad == {i \in idx : ListenerThrows(ls[i], params)}
        called == {i \in idx : \A j \in bad : i <= j}
        gone == {i \in called : ls[i].kind = "once"}
        keep(l) == \A i \in gone : ls[i].lid # l.lid
    IN  [w |-> [w EXCEPT !.pages[p].listeners = SelectSeq(ls, keep),
                         !.waits = [k \in DOMAIN w.waits |->
                              IF \E i \in gone : ls[i].wait = k
                              THEN [w.waits[k] EXCEPT !.state = "resolved", !.value = params]
                              ELSE w.waits[k]]],
         thrown |-> (bad # {}) \/ (method = ErrorEvent /\ idx = {}),
         invoked |-> {ls[i] : i \in called}]

\* EventEmitter.emit(method, params): the listeners of that name are called in
\* the order they were added, once() listeners are removed as they are called,
\* and the first exception ends the emit; 'error' without a listener throws
Emit(w, p, method, params) ==
    LET ls == w.pages[p].listeners
        idx == {i \in DOMAIN ls : ls[i].method = method}
        bad == {i \in idx : ListenerThrows(ls[i], params)}
        called == {i \in idx : \A j \in bad : i <= j}
        gone == {i \in called : ls[i].kind = "once"}
        keep(l) == \A i \in gone : ls[i].lid # l.lid
    IN  [w |-> [w EXCEPT !.pages[p].listeners = SelectSeq(ls, keep),
                         !.waits = [k \in DOMAIN w.waits |->
                              IF \E i \in gone : ls[i].wait = k
                              THEN [w.waits[k] EXCEPT !.state = "resolved", !.value = params]
                              ELSE w.waits[k]]],
         thrown |-> (bad # {}) \/ (method = ErrorEvent /\ idx = {}),
         invoked |-> {ls[i] : i \in called}]

\* _onMessage testing only whether the frame has an id
BranchById(w, p, f) ==
    IF f.json = "invalid" THEN "parse-throws"
    ELSE IF f.json = "primitive" THEN "in-throws"
    ELSE IF f.hasId /\ f.id \in DOMAIN w.pages[p].packetCallbacks THEN "response"
    ELSE IF f.hasId THEN "warn"
    ELSE IF f.method # NoMethod THEN "event"
    ELSE "warn"

\* the branch of _onMessage a frame takes
Branch(w, p, f) ==
    IF f.json = "invalid" THEN "parse-throws"
    ELSE IF f.json = "primitive" THEN "in-throws"
    ELSE IF f.hasId /\ f.id \in DOMAIN w.pages[p].packetCallbacks THEN "response"
    ELSE IF f.method # NoMethod THEN "event"
    ELSE "warn"

\* _onMessage() forgetting every pending request when a frame's id is unknown
OnMessageResync(w, p, f) ==
    LET b == Branch(w, p, f)
        quiet == [w |-> w, thrown |-> FALSE, invoked |-> {}]
        c == w.pages[p].packetCallbacks[f.id]
        deleted(x) == [x EXCEPT !.pages[p].packetCallbacks = MapDelete(@, f.id)]
        cleared(x) == [x EXCEPT !.pages[p].packetCallbacks = EmptyMap]
    IN  CASE b \in {"parse-throws", "in-throws"} -> [quiet EXCEPT !.thrown = TRUE]
          [] b = "response" ->
                IF f.error # NoError
                THEN IF f.error = E_Null
                     THEN [quiet EXCEPT !.thrown = TRUE]
                     ELSE [quiet EXCEPT !.w = deleted(Settle(w, c, "rejected", f.error))]
                ELSE [quiet EXCEPT !.w = deleted(Settle(w, c, "resolved", f.result))]
          [] b = "event" -> Emit(IF f.hasId THEN cleared(w) ELSE w, p, f.method, f.params)
          [] OTHER -> [quiet EXCEPT !.w = IF f.hasId THEN cleared(w) ELSE w]

\* _onMessage(message)
OnMessage(w, p, f) ==
    LET b == Branch(w, p, f)
        quiet == [w |-> w, thrown |-> FALSE, invoked |-> {}]
        c == w.pages[p].packetCallbacks[f.id]
        deleted(x) == [x EXCEPT !.pages[p].packetCallbacks = MapDelete(@, f.id)]
    IN  CASE b \in {"parse-throws", "in-throws"} -> [quiet EXCEPT !.thrown = TRUE]
          [] b = "response" ->
                IF f.error # NoError
                THEN IF f.error = E_Null
                     THEN [quiet EXCEPT !.thrown = TRUE]
                     ELSE [quiet EXCEPT !.w = deleted(Settle(w, c, "rejected", f.error))]
                ELSE [quiet EXCEPT !.w = deleted(Settle(w, c, "resolved", f.result))]
          [] b = "event" -> Emit(w, p, f.method, f.params)
          [] OTHER -> quiet

\* ------------------------------------------------------------------ waitFor
Timeout == "Timeout"
NoPoll == [state |-> "idle", timeout |-> 0, passes10 |-> 0, call |-> 0, evals |-> 0,
           value |-> Undefined]

\* waitFor(expression, timeout): passes = timeout / 10 (kept in tenths, so that
\* a timeout that is no multiple of 10 keeps its fraction), then the first exec()
WaitFor(po, timeout, c) ==
    [state |-> "evaluating", timeout |-> timeout, passes10 |-> timeout, call |-> c,
     evals |-> 1, value |-> Undefined]

\* waitFor counting the pass before it tests the budget
WaitForThenCountFirst(po, st, v) ==
    IF st = "rejected" THEN [po EXCEPT !.state = "rejected", !.value = v]
    ELSE IF Truthy(v) THEN [po EXCEPT !.state = "resolved", !.value = v]
    ELSE IF po.passes10 - 10 <= 0 THEN [po EXCEPT !.state = "rejected", !.value = Timeout]
    ELSE [po EXCEPT !.state = "sleeping", !.passes10 = @ - 10]

\* waitFor trying again after an evaluation that failed
WaitForThenRetry(po, st, v) ==
    IF st = "resolved" /\ Truthy(v) THEN [po EXCEPT !.state = "resolved", !.value = v]
    ELSE IF po.passes10 <= 0 THEN [po EXCEPT !.state = "rejected", !.value = Timeout]
    ELSE [po EXCEPT !.state = "sleeping", !.passes10 = @ - 10]

\* the callback waitFor chains on execSync(), and its .catch(reject)
WaitForThen(po, st, v) ==
    IF st = "rejected" THEN [po EXCEPT !.state = "rejected", !.value = v]
    ELSE IF Truthy(v) THEN [po EXCEPT !.state = "resolved", !.value = v]
    ELSE IF po.passes10 <= 0 THEN [po EXCEPT !.state = "rejected", !.value = Timeout]
    ELSE [po EXCEPT !.state = "sleeping", !.passes10 = @ - 10]

\* ------------------------------------------------------------------ navigate
\* a navigate(url, waitForLoad) call that has not run yet
NewNav(p, waitForLoad) ==
    [page |-> p, waitForLoad |-> waitForLoad, pc |-> "start", call |-> 0, wait |-> 0,
     state |-> "pending", value |-> Undefined]

\* navigate(url, waitForLoad) up to its first await: this._page.send('Page.navigate'),
\* a TypeError when this._page is undefined
Navigate(w, p, waitForLoad) ==
    LET t == w.pages[p].page IN
    IF t = 0
    THEN [w |-> w,
          nav |-> [NewNav(p, waitForLoad) EXCEPT !.pc = "threw", !.state = "rejected",
                                                 !.value = TypeError]]
    ELSE [w |-> Send(w, t, "Page.navigate", "none"),
          nav |-> [NewNav(p, waitForLoad) EXCEPT !.pc = "navigating",
                                                 !.call = Len(w.calls) + 1]]

\* navigate() running on after an await: after the response, wait('Page.loadEventFired')
\* if waitForLoad === true; after the event, done
NavigateThen(w, n) ==
    LET t == w.pages[n.page].page IN
    IF n.pc = "navigating" /\ w.calls[n.call].state = "rejected"
    THEN [w |-> w, nav |-> [n EXCEPT !.pc = "done", !.state = "rejected",
                                     !.value = w.calls[n.call].value]]
    ELSE IF n.pc = "navigating" /\ w.calls[n.call].state = "resolved"
    THEN IF n.waitForLoad
         THEN [w |-> Wait(w, t, LoadEvent),
               nav |-> [n EXCEPT !.pc = "loading", !.wait = Len(w.waits) + 1]]
         ELSE [w |-> w, nav |-> [n EXCEPT !.pc = "done", !.state = "resolved"]]
    ELSE IF n.pc = "loading" /\ w.waits[n.wait].state = "resolved"
    THEN [w |-> w, nav |-> [n EXCEPT !.pc = "done", !.state = "resolved"]]
    ELSE [w |-> w, nav |-> n]

\* the navigate() calls run on, in the order they were made
RECURSIVE NavigateAll(_, _, _)
NavigateAll(w, ns, i) ==
    IF i > Len(ns) THEN [w |-> w, navs |-> ns]
    ELSE LET r == NavigateThen(w, ns[i]) IN
         NavigateAll(r.w, [ns EXCEPT ![i] = r.nav], i + 1)

\* ------------------------------------------------------------------ actions
\* a promise that is resolved or rejected
Settled(c) == c.state \in {"resolved", "rejected"}

\* the ids of the pending requests of page p
Pending(p) == DOMAIN pages[p].packetCallbacks

World == [pages |-> pages, calls |-> calls, waits |-> waits]

Quiet ==
    /\ lastFrame' = NoFrame
    /\ branch' = "none"
    /\ thrown' = FALSE
    /\ invoked' = {}
    /\ UNCHANGED handled

SetWorld(w) ==
    /\ pages' = w.pages
    /\ calls' = w.calls
    /\ waits' = w.waits

\* the sends suspended in _waitForConnection run on, in the order they were made
RECURSIVE Flush(_, _, _)
Flush(w, p, q) ==
    IF q = <<>> THEN w ELSE Flush(SendBody(w, p, Head(q)), p, Tail(q))

\* the socket's 'open' event
SocketOpen(p) ==
    /\ pages[p].socket = "connecting"
    /\ SetWorld(Flush([World EXCEPT !.pages[p].socket = "open", !.pages[p].opening = <<>>],
                      p, pages[p].opening))
    /\ Quiet
    /\ UNCHANGED <<poll, navs, browserVars>>

\* the socket fails or closes: readyState is never 1 again
SocketClose(p) ==
    /\ pages[p].socket \in {"connecting", "open"}
    /\ pages' = [pages EXCEPT ![p].socket = "closed"]
    /\ Quiet
    /\ UNCHANGED <<calls, waits, poll, navs, browserVars>>

UserCalls(p) == Cardinality({c \in DOMAIN calls : calls[c].page = p}) - 2

\* a caller calls send(method) or exec(script)
CallSend(p, then) ==
    /\ UserCalls(p) < MaxCalls
    /\ SetWorld(Send(World, p, IF then = "none" THEN "DOM.enable" ELSE "Runtime.evaluate", then))
    /\ Quiet
    /\ UNCHANGED <<poll, navs, browserVars>>

\* a caller calls listen(method, listener)
CallListen(p, method, throws) ==
    /\ pages[p].added - 1 < MaxListeners
    /\ SetWorld(Listen(World, p, method, "durable", throws))
    /\ Quiet
    /\ UNCHANGED <<poll, navs, browserVars>>

\* a caller calls wait(method)
CallWait(p, method) ==
    /\ pages[p].added - 1 < MaxListeners
    /\ SetWorld(Wait(World, p, method))
    /\ Quiet
    /\ UNCHANGED <<poll, navs, browserVars>>

\* the socket's 'message' event: _onMessage, then the continuations of the
\* promises it settled
Receive(p, f) ==
    /\ pages[p].socket = "open"
    /\ LET r == OnMessage(World, p, f)
           n == NavigateAll(r.w, navs, 1)
       IN
       /\ SetWorld(n.w)
       /\ navs' = n.navs
       /\ thrown' = r.thrown
       /\ invoked' = r.invoked
       /\ poll' = IF poll.state = "evaluating" /\ r.w.calls[poll.call].apiState # "pending"
                  THEN WaitForThen(poll, r.w.calls[poll.call].apiState,
                                   r.w.calls[poll.call].apiValue)
                  ELSE poll
    /\ lastFrame' = f
    /\ branch' = Branch(World, p, f)
    /\ handled' = handled + 1

\* a frame arrives on the socket of the Page under test
PageReceive(p, f) ==
    /\ handled < MaxFrames
    /\ Receive(p, f)
    /\ UNCHANGED browserVars

\* the frames a peer puts on the socket of page p: text that is not JSON, a
\* JSON primitive, events, responses to the pending ids (each error, each
\* result, alone or with a method), and frames whose id is not pending (with
\* or without an error, alone or with a method)
Events == {<<LoadEvent, Undefined>>, <<ConsoleEvent, P_Msg>>,
           <<ConsoleEvent, Undefined>>, <<ErrorEvent, Undefined>>}
Frames(p) ==
    LET pending == DOMAIN pages[p].packetCallbacks
        other == (1..(pages[p].packetCounter + 1)) \ pending
    IN  {[NoFrame EXCEPT !.json = j] : j \in {"invalid", "primitive"}}
        \cup {ObjectFrame(FALSE, 0, NoError, Undefined, e[1], e[2]) :
                e \in Events \cup {<<NoMethod, Undefined>>}}
        \cup {ObjectFrame(TRUE, i, x, Undefined, NoMethod, Undefined) :
                i \in pending, x \in Errors}
        \cup {ObjectFrame(TRUE, i, NoError, r, NoMethod, Undefined) :
                i \in pending, r \in {R_Truthy, R_Exc, Undefined}}
        \cup {ObjectFrame(TRUE, i, NoError, R_Truthy, LoadEvent, Undefined) : i \in pending}
        \cup {ObjectFrame(TRUE, i, x, Undefined, e[1], e[2]) :
                i \in other, x \in {NoError, E_Obj},
                e \in {<<NoMethod, Undefined>>, <<LoadEvent, Undefined>>, <<ConsoleEvent, P_Msg>>}}

\* ------------------------------------------------------------------ one Page
InitPage ==
    /\ LET w == PageCtor([pages |-> <<>>, calls |-> <<>>, waits |-> <<>>], "A", 1) IN
       /\ pages = w.pages
       /\ calls = w.calls
       /\ waits = w.waits
    /\ poll = NoPoll
    /\ navs = <<>>
    /\ lastFrame = NoFrame
    /\ branch = "none"
    /\ thrown = FALSE
    /\ invoked = {}
    /\ handled = 0
    /\ process = [gen |-> 0, state |-> "none", exits |-> 0, signals |-> 0]
    /\ targets = <<>>
    /\ initialized = FALSE
    /\ defaultPage = 0
    /\ sockets = EmptyMap
    /\ runs = <<>>
    /\ ops = <<>>
    /\ getLog = {}

NextPage ==
    \/ SocketOpen(1)
    \/ SocketClose(1)
    \/ \E then \in {"none", "exec"} : CallSend(1, then)
    \/ \E t \in BOOLEAN : CallListen(1, LoadEvent, t)
    \/ CallWait(1, ConsoleEvent)
    \/ \E f \in Frames(1) : PageReceive(1, f)

SpecPage == InitPage /\ [][NextPage]_vars

\* ------------------------------------------------------------------ one Page polling
\* the timeouts waitFor is called with, in ms
PollTimeouts == {0, 5, 10, 30, 100}

\* a caller calls waitFor(expression, timeout): the first exec()
CallWaitFor(p, timeout) ==
    /\ poll.state = "idle"
    /\ SetWorld(Send(World, p, "Runtime.evaluate", "execSync"))
    /\ poll' = WaitFor(poll, timeout, Len(calls) + 1)
    /\ Quiet
    /\ UNCHANGED <<navs, browserVars>>

\* the timer waitFor set fires: the next exec()
PollTimer(p) ==
    /\ poll.state = "sleeping"
    /\ SetWorld(Send(World, p, "Runtime.evaluate", "execSync"))
    /\ poll' = [poll EXCEPT !.state = "evaluating", !.call = Len(calls) + 1, !.evals = @ + 1]
    /\ Quiet
    /\ UNCHANGED <<navs, browserVars>>

\* the responses the browser gives to the pending requests of page p
Responses(p) ==
    {ObjectFrame(TRUE, i, E_Obj, Undefined, NoMethod, Undefined) : i \in Pending(p)}
    \cup {ObjectFrame(TRUE, i, NoError, r, NoMethod, Undefined) :
            i \in Pending(p), r \in Results \cup {Undefined}}

\* a response arrives on the socket of the polling Page
PollReceive(p, f) ==
    /\ Receive(p, f)
    /\ UNCHANGED browserVars

NextPoll ==
    \/ SocketOpen(1)
    \/ SocketClose(1)
    \/ \E t \in PollTimeouts : CallWaitFor(1, t)
    \/ PollTimer(1)
    \/ \E f \in Responses(1) : PollReceive(1, f)

SpecPoll == InitPage /\ [][NextPoll]_vars

\* ------------------------------------------------------------------ one Page navigating
\* a caller calls navigate(url, waitForLoad)
CallNavigate(p, waitForLoad) ==
    /\ Len(navs) < MaxNavs
    /\ LET r == Navigate(World, p, waitForLoad) IN
       /\ SetWorld(r.w)
       /\ navs' = Append(navs, r.nav)
    /\ Quiet
    /\ UNCHANGED <<poll, browserVars>>

\* what the browser sends to a Page that navigates: a result or an error for a
\* pending request, and the load event
NavFrames(p) ==
    {ObjectFrame(TRUE, i, x, IF x = NoError THEN R_Empty ELSE Undefined, NoMethod, Undefined) :
        i \in Pending(p), x \in {NoError, E_Obj}}
    \cup {ObjectFrame(FALSE, 0, NoError, Undefined, LoadEvent, Undefined)}

\* a frame arrives on the socket of the navigating Page
NavReceive(p, f) ==
    /\ handled < MaxFrames + 1
    /\ Receive(p, f)
    /\ UNCHANGED browserVars

NextNav ==
    \/ SocketOpen(1)
    \/ SocketClose(1)
    \/ \E b \in BOOLEAN : CallNavigate(1, b)
    \/ \E f \in NavFrames(1) : NavReceive(1, f)

SpecNav == InitPage /\ [][NextNav]_vars

\* ------------------------------------------------------------------ Browser
\* the url chrome is started on, and the ids chrome gives its targets
Sentinel == "about:blank#default-page"
Blank == "about:blank"
TargetIds == {"A", "B"}

Min(S) == CHOOSE x \in S : \A y \in S : x <= y

\* response.targetId of a Target.createTarget result
TargetIdOf(r) == IF r \in TargetIds THEN r ELSE Undefined

\* the Browser's view of the objects: the Pages, their promises, the cache, and
\* the Page the last get() returned
BWorld ==
    [pages |-> pages, calls |-> calls, waits |-> waits, sockets |-> sockets,
     got |-> 0, made |-> FALSE]

\* get() constructing a Page on every call
GetFresh(w, id, conn) ==
    LET w1 == PageCtor(w, id, conn) IN
    [w1 EXCEPT !.sockets = MapSet(@, id, Len(w1.pages)), !.got = Len(w1.pages), !.made = TRUE]

\* get(target): the cached Page of target.id, or a new one, cached
Get(w, id, conn) ==
    IF id \in DOMAIN w.sockets
    THEN [w EXCEPT !.sockets = MapSet(@, id, w.sockets[id]), !.got = w.sockets[id],
                   !.made = FALSE]
    ELSE LET w1 == PageCtor(w, id, conn) IN
         [w1 EXCEPT !.sockets = MapSet(@, id, Len(w1.pages)), !.got = Len(w1.pages),
                    !.made = TRUE]

\* the entry of getLog for the get() that led to w: what it was given, what
\* it returned, who called it, and whether it constructed a Page while the
\* Browser was not initialized
Logged(w, id, by) ==
    [id |-> id, page |-> w.got, by |-> by, early |-> w.made /\ ~initialized]

\* pages.find(page => page.url === 'about:blank#default-page') || pages[0]
\* (0: undefined)
FindDefault(list) ==
    LET hits == {i \in DOMAIN list : list[i].url = Sentinel} IN
    IF hits # {} THEN Min(hits) ELSE IF list # <<>> THEN 1 ELSE 0

\* pages.find(page => page.id === response.targetId) (0: undefined)
FindPage(list, id) ==
    LET hits == {i \in DOMAIN list : list[i].id = id} IN
    IF hits # {} THEN Min(hits) ELSE 0

\* _waitForInit() testing that a default page exists
WaitForInitByPage == defaultPage # 0

\* _waitForInit(): resolved at once iff _initialized, else on the next 'initialized'
WaitForInit == initialized

\* an open(url) or close(page) call that has not passed _waitForInit
NewOp(kind, target) ==
    [kind |-> kind, target |-> target, pc |-> "init", call |-> 0, via |-> 0,
     calledReady |-> initialized, sentReady |-> FALSE,
     to |-> 0, targetId |-> Undefined, listed |-> FALSE, listedIds |-> {},
     result |-> 0, error |-> Undefined]

OpMethod(o) == IF o.kind = "open" THEN "Target.createTarget" ELSE "Target.closeTarget"

\* open()/close() after `await this._waitForInit()`: this._defaultPage.send(...)
Started(o, c, dp, ready) ==
    [o EXCEPT !.pc = IF o.kind = "open" THEN "create" ELSE "closing",
              !.call = c, !.via = dp, !.sentReady = ready]

\* emit('initialized'): the calls suspended in _waitForInit run on, in order
RECURSIVE Release(_, _, _, _)
Release(w, os, dp, i) ==
    IF i > Len(os) THEN [w |-> w, ops |-> os]
    ELSE IF os[i].pc = "init"
         THEN Release(Send(w, dp, OpMethod(os[i]), "none"),
                      [os EXCEPT ![i] = Started(@, Len(w.calls) + 1, dp, TRUE)], dp, i + 1)
         ELSE Release(w, os, dp, i + 1)

\* open()/close() after the response to its request: open() goes on to list()
OpThen(o, cs) ==
    IF o.pc \in {"create", "closing"} /\ Settled(cs[o.call])
    THEN IF cs[o.call].state = "rejected"
         THEN [o EXCEPT !.pc = "failed", !.error = cs[o.call].value]
         ELSE IF o.kind = "close" THEN [o EXCEPT !.pc = "done"]
         ELSE [o EXCEPT !.pc = "list", !.targetId = TargetIdOf(cs[o.call].value),
                        !.to = IF process.state = "listening" THEN process.gen ELSE 0]
    ELSE o

SetBWorld(w) ==
    /\ SetWorld(w)
    /\ sockets' = w.sockets

\* ------------------------------------------------------------------ Browser actions
\* how many processes have exited and how many calls of open, close and get the
\* user has made
Inputs == process.exits + Len(ops) + Cardinality({g \in getLog : g.by = "user"})

\* the process answers on its port, listing the page it was started on (the
\* ids being interchangeable, it is "A" as long as no Page is cached)
ProcessListens(t) ==
    /\ process.state = "starting"
    /\ sockets = EmptyMap => t = "A"
    /\ process' = [process EXCEPT !.state = "listening"]
    /\ targets' = <<[id |-> t, url |-> Sentinel]>>
    /\ Quiet
    /\ UNCHANGED <<pages, calls, waits, poll, navs, initialized, defaultPage, sockets, runs, ops,
                   getLog>>

\* every _initialize() run registering a 'browser-exit' handler of its own:
\* each exit starts as many runs, each spawning a process
ProcessExitManyHandlers ==
    /\ Inputs < MaxInputs
    /\ process' = [gen |-> process.gen + Len(runs), state |-> "starting",
                   exits |-> process.exits + 1, signals |-> process.signals + 1]
    /\ targets' = <<>>
    /\ initialized' = FALSE
    /\ runs' = runs \o [i \in 1..Len(runs) |-> [pc |-> "health", to |-> 0, by |-> "browser-exit"]]
    /\ Quiet
    /\ UNCHANGED <<pages, calls, waits, poll, navs, defaultPage, sockets, ops, getLog>>

\* 'browser-exit' also forgetting the pending requests of every Page
ProcessExitForgets ==
    /\ Inputs < MaxInputs
    /\ process' = [gen |-> process.gen + 1, state |-> "starting",
                   exits |-> process.exits + 1, signals |-> process.signals + 1]
    /\ targets' = <<>>
    /\ initialized' = FALSE
    /\ runs' = Append(runs, [pc |-> "health", to |-> 0, by |-> "browser-exit"])
    /\ pages' = [p \in DOMAIN pages |-> [pages[p] EXCEPT !.packetCallbacks = EmptyMap]]
    /\ Quiet
    /\ UNCHANGED <<calls, waits, poll, navs, defaultPage, sockets, ops, getLog>>

\* the process exits: 'browser-exit', whose handler clears _initialized and
\* calls _initialize(), which spawns the next process and polls its port
ProcessExit ==
    /\ Inputs < MaxInputs
    /\ process' = [gen |-> process.gen + 1, state |-> "starting",
                   exits |-> process.exits + 1, signals |-> process.signals + 1]
    /\ targets' = <<>>
    /\ initialized' = FALSE
    /\ runs' = Append(runs, [pc |-> "health", to |-> 0, by |-> "browser-exit"])
    /\ Quiet
    /\ UNCHANGED <<pages, calls, waits, poll, navs, defaultPage, sockets, ops, getLog>>

\* _refreshProcess() of run r: the port answers, and _initialize() calls list()
HealthOk(r) ==
    /\ runs[r].pc = "health"
    /\ process.state = "listening"
    /\ runs' = [runs EXCEPT ![r].pc = "list", ![r].to = process.gen]
    /\ Quiet
    /\ UNCHANGED <<pages, calls, waits, poll, navs, process, targets, initialized, defaultPage,
                   sockets, ops, getLog>>

\* list() of run r fails, the process it asked having exited: _initialize() rejects
RunListFails(r) ==
    /\ runs[r].pc = "list"
    /\ runs[r].to # process.gen
    /\ runs' = [runs EXCEPT ![r].pc = "failed"]
    /\ Quiet
    /\ UNCHANGED <<pages, calls, waits, poll, navs, process, targets, initialized, defaultPage,
                   sockets, ops, getLog>>

\* list() of run r answers: the default page is chosen and asked to discover
\* targets, _initialize() resolves, _initialized is set and 'initialized' emitted
InitializeDone(r) ==
    /\ runs[r].pc = "list"
    /\ runs[r].to = process.gen
    /\ process.state = "listening"
    /\ LET d == FindDefault(targets) IN
       IF d = 0
       THEN /\ runs' = [runs EXCEPT ![r].pc = "failed"]
            /\ UNCHANGED <<pages, calls, waits, sockets, defaultPage, initialized, ops, getLog>>
       ELSE LET w1 == Get(BWorld, targets[d].id, process.gen)
                w2 == Send(w1, w1.got, "Target.setDiscoverTargets", "none")
                rel == Release(w2, ops, w1.got, 1)
            IN  /\ SetBWorld(rel.w)
                /\ defaultPage' = w1.got
                /\ initialized' = TRUE
                /\ ops' = rel.ops
                /\ runs' = [runs EXCEPT ![r].pc = "done"]
                /\ getLog' = getLog \cup {Logged(w1, targets[d].id, "initialize")}
    /\ Quiet
    /\ UNCHANGED <<poll, navs, process, targets>>

\* a caller calls open(url) or close(page)
CallOp(kind, target) ==
    /\ Inputs < MaxInputs
    /\ IF WaitForInit
       THEN /\ SetWorld(Send(World, defaultPage, OpMethod(NewOp(kind, target)), "none"))
            /\ ops' = Append(ops, Started(NewOp(kind, target), Len(calls) + 1, defaultPage,
                                          initialized))
       ELSE /\ ops' = Append(ops, NewOp(kind, target))
            /\ UNCHANGED <<pages, calls, waits>>
    /\ Quiet
    /\ UNCHANGED <<poll, navs, process, targets, initialized, defaultPage, sockets, runs, getLog>>

\* a caller calls get(descriptor)
CallGet(id) ==
    /\ Inputs < MaxInputs
    /\ LET w == Get(BWorld, id, process.gen) IN
       /\ SetBWorld(w)
       /\ getLog' = getLog \cup {Logged(w, id, "user")}
    /\ Quiet
    /\ UNCHANGED <<poll, navs, process, targets, initialized, defaultPage, runs, ops>>

\* list() of open() o answers: the page with the new target's id goes to get();
\* with no such page get(undefined) throws
OpenListed(o) ==
    /\ ops[o].pc = "list"
    /\ ops[o].to = process.gen
    /\ process.state = "listening"
    /\ LET i == FindPage(targets, ops[o].targetId) IN
       IF i = 0
       THEN /\ ops' = [ops EXCEPT ![o].pc = "failed", ![o].error = TypeError,
                                  ![o].listed = TRUE,
                                  ![o].listedIds = {targets[k].id : k \in DOMAIN targets}]
            /\ UNCHANGED <<pages, calls, waits, sockets, getLog>>
       ELSE LET w == Get(BWorld, targets[i].id, process.gen) IN
            /\ SetBWorld(w)
            /\ ops' = [ops EXCEPT ![o].pc = "done", ![o].result = w.got,
                                  ![o].listed = TRUE,
                                  ![o].listedIds = {targets[k].id : k \in DOMAIN targets}]
            /\ getLog' = getLog \cup {Logged(w, targets[i].id, "open")}
    /\ Quiet
    /\ UNCHANGED <<poll, navs, process, targets, initialized, defaultPage, runs>>

\* list() of open() o fails, the process it asked having exited
OpenListFails(o) ==
    /\ ops[o].pc = "list"
    /\ ops[o].to # process.gen
    /\ ops' = [ops EXCEPT ![o].pc = "failed", ![o].error = "ECONNREFUSED"]
    /\ Quiet
    /\ UNCHANGED <<pages, calls, waits, poll, navs, process, targets, initialized, defaultPage,
                   sockets, runs, getLog>>

\* the socket of page p opens: its process runs and has the target
BrowserSocketOpen(p) ==
    /\ pages[p].conn = process.gen
    /\ process.state = "listening"
    /\ \E i \in DOMAIN targets : targets[i].id = pages[p].id
    /\ SocketOpen(p)

\* the socket of page p closes, its process or its target being gone
BrowserSocketClose(p) ==
    /\ \/ pages[p].conn # process.gen
       \/ \A i \in DOMAIN targets : targets[i].id # pages[p].id
    /\ SocketClose(p)

\* the target closes in the browser
TargetCloses(i) ==
    /\ process.state = "listening"
    /\ targets' = SubSeq(targets, 1, i - 1) \o SubSeq(targets, i + 1, Len(targets))
    /\ Quiet
    /\ UNCHANGED <<pages, calls, waits, poll, navs, process, initialized, defaultPage, sockets,
                   runs, ops, getLog>>

\* the pending requests of page p that an open() or a close() awaits. (The
\* answers to the other requests, the enables, have no continuation in Browser;
\* SpecPage covers them.)
Awaited(p) == {id \in Pending(p) : \E o \in DOMAIN ops : ops[o].call = pages[p].packetCallbacks[id]}

\* what the process does with the oldest awaited request of page p, and the
\* frame it answers: a new target and its id, a target closed, or an error
Answer(p, ok, t) ==
    LET id == Min(Awaited(p))
        c == pages[p].packetCallbacks[id]
        m == calls[c].method
        arg == {ops[o].target : o \in {x \in DOMAIN ops : ops[x].call = c}}
        keep(d) == d.id \notin arg
    IN  IF ~ok THEN [frame |-> ObjectFrame(TRUE, id, E_Obj, Undefined, NoMethod, Undefined),
                     targets |-> targets]
        ELSE IF m = "Target.createTarget"
        THEN [frame |-> ObjectFrame(TRUE, id, NoError, t, NoMethod, Undefined),
              targets |-> Append(targets, [id |-> t, url |-> Blank])]
        ELSE [frame |-> ObjectFrame(TRUE, id, NoError, R_Empty, NoMethod, Undefined),
              targets |-> SelectSeq(targets, keep)]

\* the process answers the oldest awaited request of page p, and the frame is
\* handled: _onMessage, then open()/close() run on
ProcessAnswers(p, ok, t) ==
    /\ pages[p].socket = "open"
    /\ pages[p].conn = process.gen
    /\ process.state = "listening"
    /\ Awaited(p) # {}
    /\ LET m == calls[pages[p].packetCallbacks[Min(Awaited(p))]].method IN
       /\ (ok /\ m = "Target.createTarget") => t \notin {targets[i].id : i \in DOMAIN targets}
       /\ (~ok \/ m # "Target.createTarget") => t = "A"
    /\ LET a == Answer(p, ok, t) IN
       /\ Receive(p, a.frame)
       /\ targets' = a.targets
       /\ ops' = [o \in DOMAIN ops |-> OpThen(ops[o], OnMessage(World, p, a.frame).w.calls)]
    /\ UNCHANGED <<process, initialized, defaultPage, sockets, runs, getLog>>

\* ------------------------------------------------------------------ one Browser
\* new Browser(config): _initialize() has spawned the first process and polls it
Init ==
    /\ pages = <<>>
    /\ calls = <<>>
    /\ waits = <<>>
    /\ poll = NoPoll
    /\ navs = <<>>
    /\ lastFrame = NoFrame
    /\ branch = "none"
    /\ thrown = FALSE
    /\ invoked = {}
    /\ handled = 0
    /\ process = [gen |-> 1, state |-> "starting", exits |-> 0, signals |-> 0]
    /\ targets = <<>>
    /\ initialized = FALSE
    /\ defaultPage = 0
    /\ sockets = EmptyMap
    /\ runs = <<[pc |-> "health", to |-> 0, by |-> "constructor"]>>
    /\ ops = <<>>
    /\ getLog = {}

Next ==
    \/ \E t \in TargetIds : ProcessListens(t)
    \/ ProcessExit
    \/ \E r \in DOMAIN runs : HealthOk(r)
    \/ \E r \in DOMAIN runs : RunListFails(r)
    \/ \E r \in DOMAIN runs : InitializeDone(r)
    \/ CallOp("open", "none")
    \/ \E p \in DOMAIN pages : CallOp("close", pages[p].id)
    \/ \E id \in TargetIds : CallGet(id)
    \/ \E o \in DOMAIN ops : OpenListed(o)
    \/ \E o \in DOMAIN ops : OpenListFails(o)
    \/ \E p \in DOMAIN pages : BrowserSocketOpen(p)
    \/ \E p \in DOMAIN pages : BrowserSocketClose(p)
    \/ \E i \in DOMAIN targets : TargetCloses(i)
    \/ \E p \in DOMAIN pages, ok \in BOOLEAN, t \in TargetIds : ProcessAnswers(p, ok, t)

Spec == Init /\ [][Next]_vars

\* ------------------------------------------------------------------ claims on one Page
\* the id written in the request frame of call c
WireId(p, c) == {pages[p].wire[k].id : k \in {j \in DOMAIN pages[p].wire : pages[p].wire[j].call = c}}

\* C1: a send is settled only by a frame whose id is the id written in that
\* send's own request frame, and with that frame's payload: rejected with its
\* error if it carries one, resolved with its result otherwise
C1_Correlation ==
    [][\A c \in DOMAIN calls :
          (~Settled(calls[c]) /\ Settled(calls'[c])) =>
              /\ lastFrame'.hasId
              /\ WireId(calls[c].page, c) = {lastFrame'.id}
              /\ IF lastFrame'.error # NoError
                 THEN calls'[c].state = "rejected" /\ calls'[c].value = lastFrame'.error
                 ELSE calls'[c].state = "resolved" /\ calls'[c].value = lastFrame'.result]_vars

\* C1 witness: two sends are outstanding and the response to the later one
\* arrives first and resolves it, the earlier one still pending
C1_Witness ==
    \E c1, c2 \in DOMAIN calls :
        /\ calls[c1].id = 1 /\ calls[c1].state = "pending"
        /\ calls[c2].id = 2 /\ calls[c2].state = "resolved"
        /\ lastFrame.hasId /\ lastFrame.id = 2 /\ calls[c2].value = lastFrame.result

\* C2 as stated (taken where no listener throws): an event frame for M invokes
\* every durable listener for M, at most one waiter, and nothing registered
\* for another name
C2_AtMostOneWaiter ==
    (branch = "event" /\ ~thrown) =>
        /\ \A l \in invoked : l.method = lastFrame.method
        /\ \A i \in DOMAIN pages[1].listeners :
              (pages[1].listeners[i].method = lastFrame.method
               /\ pages[1].listeners[i].kind # "once") => pages[1].listeners[i] \in invoked
        /\ Cardinality({l \in invoked : l.kind = "once"}) <= 1

\* C2 amended: an event frame for M invokes the listeners registered for M,
\* durable and one-shot alike, in the order they were registered and up to the
\* first one that throws; when none throws every durable listener and every
\* pending waiter for M is invoked; each invoked waiter is resolved with the
\* frame's params and removed; nothing registered for another name is invoked
C2_Dispatch ==
    branch = "event" =>
        LET ls == pages[1].listeners
            left == {ls[i] : i \in DOMAIN ls}
            forM == {l \in left \cup invoked : l.method = lastFrame.method}
            bad == {l \in invoked : ListenerThrows(l, lastFrame.params)}
        IN  /\ invoked \subseteq forM
            /\ \A l \in invoked : l.kind = "once" =>
                  /\ l \notin left
                  /\ waits[l.wait].state = "resolved"
                  /\ waits[l.wait].value = lastFrame.params
            /\ \A l \in forM \ invoked :
                  /\ l.kind = "once" => waits[l.wait].state = "pending"
                  /\ \E t \in bad : t.lid < l.lid
            /\ \A t \in bad : \A l \in invoked : l.lid <= t.lid
            /\ thrown = (bad # {} \/ (lastFrame.method = ErrorEvent /\ forM = {}))

\* C2 witness: one event frame has been dispatched to a durable listener and
\* to two pending waiters of its name
C2_Witness ==
    /\ branch = "event"
    /\ Cardinality({l \in invoked : l.kind = "once"}) = 2
    /\ \E l \in invoked : l.kind # "once"

\* C3: handling a frame whose id matches no pending request leaves the pending
\* map, the id counter and every request's outcome as they were
C3_UnknownIdDropped ==
    [][(handled' = handled + 1 /\ lastFrame'.hasId /\ lastFrame'.id \notin Pending(1)) =>
          /\ pages'[1].packetCallbacks = pages[1].packetCallbacks
          /\ pages'[1].packetCounter = pages[1].packetCounter
          /\ calls' = calls]_vars

\* C3 witness: a frame with an unknown id and an error field has been handled
\* while requests were pending
C3_Witness ==
    /\ lastFrame.hasId
    /\ lastFrame.error # NoError
    /\ branch \in {"event", "warn"}
    /\ Pending(1) # {}
    /\ lastFrame.id \notin Pending(1)

\* C4: _onMessage never throws, whatever the frame
C4_NeverThrows == ~thrown

\* C9 as stated: an exec whose response carries exceptionDetails fails with
\* them, and an exec whose response carries none resolves
C9_ResolvesWithoutException ==
    \A c \in DOMAIN calls :
        (calls[c].then = "exec" /\ Settled(calls[c])) =>
            IF calls[c].state = "resolved" /\ calls[c].value = R_Exc
            THEN calls[c].apiState = "rejected" /\ calls[c].apiValue = "X"
            ELSE calls[c].apiState = "resolved"

\* C9 amended: an exec fails with the exceptionDetails of a result that carries
\* them, resolves with a result object that carries none, fails with the error
\* of an error response (which carries no exceptionDetails), fails with a
\* TypeError when the response has no result, and is pending until the response
C9_Exec ==
    \A c \in DOMAIN calls :
        calls[c].then = "exec" =>
            CASE calls[c].state = "rejected" ->
                    calls[c].apiState = "rejected" /\ calls[c].apiValue = calls[c].value
              [] calls[c].state = "resolved" /\ calls[c].value = R_Exc ->
                    calls[c].apiState = "rejected" /\ calls[c].apiValue = "X"
              [] calls[c].state = "resolved" /\ calls[c].value \in Results \ {R_Exc} ->
                    calls[c].apiState = "resolved" /\ calls[c].apiValue = calls[c].value
              [] calls[c].state = "resolved" /\ calls[c].value = Undefined ->
                    calls[c].apiState = "rejected" /\ calls[c].apiValue = TypeError
              [] OTHER -> calls[c].apiState = "pending"

\* C9 witness: an exec has failed with the exceptionDetails of its response
C9_Witness ==
    \E c \in DOMAIN calls :
        /\ calls[c].then = "exec"
        /\ calls[c].state = "resolved" /\ calls[c].value = R_Exc
        /\ calls[c].apiState = "rejected" /\ calls[c].apiValue = "X"

\* the evaluations of the poll: the execSync calls made, and those answered
Evaluations == {c \in DOMAIN calls : calls[c].then = "execSync"}
AllFalsy == \A c \in Evaluations : calls[c].apiState = "resolved" /\ ~Truthy(calls[c].apiValue)

\* C8 as stated, on its own example: with every evaluation falsy,
\* waitFor(fn, 100) fails with the timeout error after 100 / 10 = 10 evaluations
C8_TimeoutOverTenEvaluations ==
    (poll.timeout = 100 /\ poll.state = "rejected" /\ poll.value = Timeout) => poll.evals = 10

\* C8 amended: with every evaluation falsy the poll fails with the timeout
\* error after ceil(timeout / 10) + 1 evaluations (11 for timeout = 100), not
\* earlier and not later; each evaluation is one answered evaluate request,
\* and no evaluate request is written after the poll has failed
C8_Evaluations ==
    LET n == poll.evals
        written == {k \in DOMAIN pages[1].wire : pages[1].wire[k].method = "Runtime.evaluate"}
        enough == (n - 1) * 10 >= poll.timeout
    IN  /\ (poll.state = "rejected" /\ poll.value = Timeout) =>
              /\ enough
              /\ (n - 2) * 10 < poll.timeout \/ n = 1
              /\ AllFalsy
              /\ Cardinality(Evaluations) = n
              /\ Cardinality(written) = n
        /\ (poll.state \in {"sleeping", "evaluating"} /\ enough) =>
              /\ poll.state = "evaluating"
              /\ ~Settled(calls[poll.call])
        /\ (poll.state = "sleeping") => AllFalsy

\* C8 witness: waitFor(fn, 100) has failed with the timeout error after 11
\* answered evaluations
C8_Witness ==
    /\ poll.timeout = 100
    /\ poll.state = "rejected" /\ poll.value = Timeout
    /\ poll.evals = 11
    /\ AllFalsy

\* ------------------------------------------------------------------ claims on the Browser
\* C5: get(descriptor) returns, for an id it was given before, the Page it
\* returned the first time, and for two different ids two different Pages; the
\* cache keeps every entry, across calls, target closures and restarts
C5_GetIdempotent ==
    /\ \A g1, g2 \in getLog : (g1.id = g2.id) <=> (g1.page = g2.page)
    /\ \A g \in getLog :
          /\ g.id \in DOMAIN sockets
          /\ sockets[g.id] = g.page
          /\ pages[g.page].id = g.id

\* C5 witness: after a restart get() has been given again an id it was given
\* before the restart, and it has also been given another id
C5_Witness ==
    /\ process.gen > 1
    /\ \E g1, g2, g3 \in getLog :
          /\ g1.id = g2.id /\ g1 # g2
          /\ g3.id # g1.id

\* C6 as stated: open, close and get have no effect while the Browser is not
\* initialized: no request on the default page, no Page constructed
C6_AllWaitForReady ==
    /\ \A o \in DOMAIN ops : ops[o].call # 0 => ops[o].sentReady
    /\ \A g \in getLog : g.by = "user" => ~g.early

\* C6 amended: open and close called while the Browser is not initialized
\* send nothing on the default page until it is initialized, and send as soon
\* as it is; get does not wait: it returns a Page at once
C6_OpenCloseWait ==
    /\ \A o \in DOMAIN ops :
          /\ ops[o].call # 0 => ops[o].sentReady
          /\ ops[o].pc = "init" <=> ops[o].call = 0
          /\ ops[o].pc = "init" => ~initialized /\ ~ops[o].calledReady
          /\ ops[o].call # 0 =>
                /\ calls[ops[o].call].method = OpMethod(ops[o])
                /\ calls[ops[o].call].page = ops[o].via
    /\ \A c \in DOMAIN calls :
          calls[c].method \in {"Target.createTarget", "Target.closeTarget"} =>
              \E o \in DOMAIN ops : ops[o].call = c
    /\ \A g \in getLog : g.by = "user" => g.page \in DOMAIN pages

\* C6 witness: an open or close called while the Browser was not initialized
\* has sent its request after the Browser became initialized
C6_Witness ==
    \E o \in DOMAIN ops : ~ops[o].calledReady /\ ops[o].call # 0 /\ ops[o].sentReady

\* C7: the Browser is initialized only when the _initialize() run that the
\* latest crash signal started has completed
C7_ReadyOnlyAfterCrashRun ==
    initialized => runs[Len(runs)].pc = "done"

\* C10 as stated: an open() that has got its discovery list returns a Page whose
\* id is the targetId of the create response, whatever the list holds
C10_ReturnsCreatedTarget ==
    \A o \in DOMAIN ops :
        (ops[o].kind = "open" /\ ops[o].listed) =>
            /\ ops[o].pc = "done"
            /\ ops[o].result # 0
            /\ pages[ops[o].result].id = ops[o].targetId

\* C10, what open() does: it sends Target.createTarget on the default page, asks for
\* the discovery list only after a success response, and returns the Page whose
\* id is the response's targetId when the list holds a descriptor with that
\* id; when the list holds none, open() fails with a TypeError and returns
\* no Page
C10_Open ==
    \A o \in DOMAIN ops :
        ops[o].kind = "open" =>
            /\ ops[o].call # 0 =>
                  /\ calls[ops[o].call].method = "Target.createTarget"
                  /\ calls[ops[o].call].page = ops[o].via
                  /\ \E g \in getLog : g.by = "initialize" /\ g.page = ops[o].via
            /\ (ops[o].pc \in {"list", "done"} \/ ops[o].listed) =>
                  /\ calls[ops[o].call].state = "resolved"
                  /\ calls[ops[o].call].value = ops[o].targetId
            /\ ops[o].pc = "done" => ops[o].listed
            /\ (ops[o].listed /\ ops[o].targetId \in ops[o].listedIds) =>
                  /\ ops[o].pc = "done"
                  /\ ops[o].result # 0
                  /\ pages[ops[o].result].id = ops[o].targetId
                  /\ sockets[ops[o].targetId] = ops[o].result
            /\ (ops[o].listed /\ ops[o].targetId \notin ops[o].listedIds) =>
                  /\ ops[o].pc = "failed"
                  /\ ops[o].error = TypeError
                  /\ ops[o].result = 0

\* C10, the case where the claim holds: an open() has returned the Page of the
\* target it created
C10_Witness ==
    \E o \in DOMAIN ops :
        /\ ops[o].kind = "open" /\ ops[o].pc = "done"
        /\ ops[o].targetId \in ops[o].listedIds
        /\ pages[ops[o].result].id = ops[o].targetId

\* the id of the descriptor C11 names in a discovery list: the first one whose
\* url is the sentinel, else the first one
DefaultIdOf(list) ==
    LET hits == {i \in DOMAIN list : list[i].url = Sentinel} IN
    IF hits # {} THEN list[Min(hits)].id ELSE list[1].id

\* the _initialize() run r gets the answer to its list() in this step
ListAnswered(r) ==
    /\ runs[r].pc = "list" /\ runs'[r].pc # "list"
    /\ runs[r].to = process.gen

\* C11 as stated: every _initialize() run completes when its discovery list
\* arrives, whatever the list, and the default page is then the Page of the
\* first sentinel descriptor, or of the first descriptor
C11_CompletesForEveryList ==
    [][\A r \in DOMAIN runs :
          ListAnswered(r) =>
              /\ runs'[r].pc = "done"
              /\ defaultPage' # 0
              /\ pages'[defaultPage'].id = DefaultIdOf(targets)]_vars

\* C11, what _initialize() does: on a list that is not empty it completes with
\* the default page as C11 says, and the Browser is initialized; on an empty
\* list it fails, and neither the default page nor _initialized changes
C11_Default ==
    [][\A r \in DOMAIN runs :
          ListAnswered(r) =>
              IF targets # <<>>
              THEN /\ runs'[r].pc = "done"
                   /\ defaultPage' # 0
                   /\ pages'[defaultPage'].id = DefaultIdOf(targets)
                   /\ sockets'[DefaultIdOf(targets)] = defaultPage'
                   /\ initialized'
              ELSE /\ runs'[r].pc = "failed"
                   /\ UNCHANGED <<defaultPage, initialized, sockets, pages>>]_vars

\* C12: a navigate() writes a Page.navigate request on its own Page's socket
\* once that socket is open; it completes only after the response and, with
\* waitForLoad, a load event after it; without waitForLoad it completes with
\* the response; it fails only with the error of its response
C12_Navigate ==
    \A n \in DOMAIN navs :
        LET nav == navs[n]
            own == {k \in DOMAIN pages[nav.page].wire :
                       /\ pages[nav.page].wire[k].method = "Page.navigate"
                       /\ pages[nav.page].wire[k].call = nav.call}
        IN  /\ pages[nav.page].socket = "open" => own # {}
            /\ nav.state = "resolved" =>
                  /\ nav.call # 0 /\ calls[nav.call].state = "resolved"
                  /\ nav.waitForLoad => (nav.wait # 0 /\ waits[nav.wait].state = "resolved")
            /\ (~nav.waitForLoad /\ nav.call # 0 /\ calls[nav.call].state = "resolved") =>
                  nav.state = "resolved"
            /\ nav.state = "rejected" =>
                  /\ nav.call # 0 /\ calls[nav.call].state = "rejected"
                  /\ nav.value = calls[nav.call].value

\* the evaluate requests written on the socket of page 1
EvaluateFrames == {k \in DOMAIN pages[1].wire : pages[1].wire[k].method = "Runtime.evaluate"}

\* the poll is settled by its last evaluation, every earlier one having been falsy
DecidedBy(po, cs) ==
    /\ po.call # 0
    /\ po.value = cs[po.call].apiValue
    /\ \A c \in DOMAIN cs :
          (cs[c].then = "execSync" /\ c # po.call) =>
              cs[c].apiState = "resolved" /\ ~Truthy(cs[c].apiValue)

\* C13: the poll ends on the first decisive evaluation: a truthy value resolves
\* it with that value, a failed evaluation fails it with that error; a settled
\* poll never changes again and no evaluation is made after it
C13_FirstDecisive ==
    [][/\ poll'.state = "resolved" =>
              /\ calls'[poll'.call].apiState = "resolved"
              /\ Truthy(calls'[poll'.call].apiValue)
              /\ DecidedBy(poll', calls')
       /\ (poll'.state = "rejected" /\ poll'.value # Timeout) =>
              /\ calls'[poll'.call].apiState = "rejected"
              /\ DecidedBy(poll', calls')
       /\ \A c \in DOMAIN calls' :
              calls'[c].then = "execSync" =>
                  /\ calls'[c].apiState = "rejected" => poll'.state = "rejected"
                  /\ (calls'[c].apiState = "resolved" /\ Truthy(calls'[c].apiValue)) =>
                        poll'.state = "resolved"
       /\ poll.state \in {"resolved", "rejected"} =>
              /\ poll' = poll
              /\ Evaluations' = Evaluations
              /\ EvaluateFrames' = EvaluateFrames]_vars

\* C13 witness: after a falsy evaluation the next one threw in the page, the
\* poll failed with its exceptionDetails, and a later frame changed nothing
C13_Witness ==
    /\ poll.state = "rejected" /\ poll.value = "X"
    /\ poll.evals >= 2
    /\ calls[poll.call].value = R_Exc
    /\ handled > poll.evals

\* C14: in every step at which the process of a Page has exited, or after which
\* its socket is closed, each pending request of the Page stays in the pending
\* map under its id and its outcome stays as it was
C14_Orphaned ==
    [][\A p \in DOMAIN pages :
          (pages[p].conn # process'.gen \/ pages'[p].socket = "closed") =>
              \A id \in Pending(p) :
                  /\ id \in DOMAIN pages'[p].packetCallbacks
                  /\ pages'[p].packetCallbacks[id] = pages[p].packetCallbacks[id]
                  /\ calls'[pages[p].packetCallbacks[id]] = calls[pages[p].packetCallbacks[id]]
                  /\ calls[pages[p].packetCallbacks[id]].state = "pending"]_vars

\* C14 witness: an open() or close() awaits a request that was pending on the
\* default page when its process exited, and the Browser is initialized again
C14_Witness ==
    /\ initialized
    /\ process.gen > 1
    /\ runs[Len(runs)].pc = "done"
    /\ \E o \in DOMAIN ops :
          /\ ops[o].call # 0
          /\ ops[o].pc \in {"create", "closing"}
          /\ pages[ops[o].via].conn < process.gen
          /\ calls[ops[o].call].state = "pending"
          /\ calls[ops[o].call].id \in Pending(ops[o].via)

\* _onMessage is called in this step with a frame whose id is pending / is not
MatchingFrame == handled' = handled + 1 /\ lastFrame'.hasId /\ lastFrame'.id \in Pending(1)
RepeatedFrame == handled' = handled + 1 /\ lastFrame'.hasId /\ lastFrame'.id \notin Pending(1)

\* the frame of this step removes the entry of its id and settles that request,
\* and no other entry or request changes
RemovesAndSettles ==
    LET c == pages[1].packetCallbacks[lastFrame'.id] IN
    /\ pages'[1].packetCallbacks = MapDelete(pages[1].packetCallbacks, lastFrame'.id)
    /\ ~Settled(calls[c]) /\ Settled(calls'[c])
    /\ lastFrame'.error # NoError => calls'[c].state = "rejected"
    /\ \A d \in DOMAIN calls : d # c => calls'[d] = calls[d]

\* the frame of this step changes no entry and no request
ChangesNothing ==
    /\ pages'[1].packetCallbacks = pages[1].packetCallbacks
    /\ calls' = calls

\* C15 as stated: the first frame whose id matches a pending request removes
\* that entry and settles that request, and only those; a frame repeating the
\* id changes nothing; a settled request stays as it is
C15_FirstMatchRemoves ==
    [][/\ MatchingFrame => RemovesAndSettles
       /\ RepeatedFrame => ChangesNothing
       /\ \A c \in DOMAIN calls : Settled(calls[c]) => calls'[c] = calls[c]]_vars

\* C15, what _onMessage does: as C15 says for a matching frame whose error is
\* absent or an object; a matching frame with `error: null` throws, and the
\* entry stays and the request stays pending
C15_RemovedOnce ==
    [][/\ MatchingFrame =>
              IF lastFrame'.error = E_Null THEN ChangesNothing /\ thrown'
              ELSE RemovesAndSettles
       /\ RepeatedFrame => ChangesNothing
       /\ \A c \in DOMAIN calls : Settled(calls[c]) => calls'[c] = calls[c]]_vars

\* C16: the k-th request frame written on a socket carries the id k, the
\* counter is the number of frames written (0 before the first), and every key
\* of the pending map is an id between 1 and the counter
C16_IdsInSequence ==
    \A p \in DOMAIN pages :
        LET w == pages[p].wire IN
        /\ pages[p].packetCounter = Len(w)
        /\ \A k \in DOMAIN w : w[k].id = k
        /\ Pending(p) \subseteq 1..pages[p].packetCounter
        /\ \A id \in Pending(p) : w[id].call = pages[p].packetCallbacks[id]

\* C16 witness: a third request was written after the response to the first
\* one had removed its entry, and it has the id 3
C16_Witness ==
    /\ pages[1].packetCounter = 3
    /\ Len(pages[1].wire) = 3
    /\ pages[1].wire[3].id = 3
    /\ calls[pages[1].wire[3].call].state = "pending"
    /\ Pending(1) = {2, 3}
    /\ lastFrame = NoFrame

\* the sends of page p suspended in _waitForConnection
Suspended(p) == {c \in DOMAIN calls : calls[c].page = p /\ calls[c].state = "waiting"}

\* C17: a step writes a request frame, moves the id counter or registers a
\* pending request only with the socket open after it; a suspended send has no
\* id and no frame; none is suspended while the socket is open; and on a socket
\* that is closed the suspended sends stay suspended
C17_OnlyWhenOpen ==
    [][\A p \in DOMAIN pages :
          /\ (\/ pages'[p].wire # pages[p].wire
              \/ pages'[p].packetCounter # pages[p].packetCounter
              \/ Pending(p)' \ Pending(p) # {}) => pages'[p].socket = "open"
          /\ \A c \in Suspended(p)' :
                /\ calls'[c].id = 0
                /\ \A k \in DOMAIN pages'[p].wire : pages'[p].wire[k].call # c
                /\ \A id \in Pending(p)' : pages'[p].packetCallbacks[id] # c
          /\ pages'[p].socket = "open" => Suspended(p)' = {}
          /\ pages[p].socket = "connecting" =>
                /\ pages[p].wire = <<>>
                /\ \A c \in DOMAIN calls : calls[c].page = p => c \in Suspended(p)
          /\ pages[p].socket = "closed" =>
                /\ pages'[p].socket = "closed"
                /\ Suspended(p) \subseteq Suspended(p)']_vars

\* C17 witness: two sends suspended while connecting were written at the open
\* event, the socket then closed, and a send made after that is suspended
C17_Witness ==
    /\ pages[1].socket = "closed"
    /\ pages[1].packetCounter = 2
    /\ \E c \in Suspended(1) : c > 2

\* the last frame handled had an id that matched no pending request
UnknownId == lastFrame.hasId /\ branch \in {"event", "warn"}

\* C18 as stated: a frame whose id matches no pending request invokes no
\* listener and no waiter, with or without a method field
C18_NothingInvoked ==
    UnknownId => invoked = {}

\* C18 amended: a frame whose id matches no pending request and which has no
\* method field invokes nothing; one that has a method field is dispatched as
\* the event of that name: the listeners and waiters registered for it are
\* invoked, up to the first that throws, and the invoked waiters are resolved
\* with the frame's params
C18_UnknownIdIsEvent ==
    UnknownId =>
        LET ls == pages[1].listeners
            forM == {l \in {ls[i] : i \in DOMAIN ls} \cup invoked : l.method = lastFrame.method}
        IN  IF lastFrame.method = NoMethod
            THEN branch = "warn" /\ invoked = {} /\ ~thrown
            ELSE /\ branch = "event"
                 /\ invoked \subseteq forM
                 /\ (forM # {}) => (invoked # {})
                 /\ ~thrown => invoked = forM
                 /\ \A l \in invoked : l.kind = "once" =>
                       /\ waits[l.wait].state = "resolved"
                       /\ waits[l.wait].value = lastFrame.params

\* C18 witness: a frame with an id that is not pending and a method has
\* resolved a waiter of that method, while a request was pending
C18_Witness ==
    /\ UnknownId
    /\ Pending(1) # {}
    /\ \E l \in invoked :
          /\ l.kind = "once"
          /\ l.method = lastFrame.method
          /\ waits[l.wait].state = "resolved"

\* C19: one 'browser-exit' per exit, one _initialize() run per 'browser-exit'
\* and the constructor's, one process spawned per run and none otherwise: the
\* runs are 1 + the exits, and of the processes spawned at most one has not exited
C19_OneRunPerExit ==
    /\ process.signals = process.exits
    /\ Len(runs) = 1 + process.signals
    /\ process.gen = Len(runs)
    /\ process.gen - process.exits <= 1
    /\ runs[1].by = "constructor"
    /\ \A r \in 2..Len(runs) : runs[r].by = "browser-exit"

\* C19 witness: two processes have exited, the first one before the
\* constructor's run had finished, and three runs were started
C19_Witness ==
    /\ process.exits = 2
    /\ Len(runs) = 3
    /\ runs[1].to > 1

\* C20: while the Browser is initialized, the socket of the default page was
\* opened to the process that is running now
C20_DefaultOnLiveProcess ==
    initialized => (defaultPage # 0 /\ pages[defaultPage].conn = process.gen)

====
